---- MODULE Spec2Model ----
(***************************************************************************)
(* Tender-Tracker: the Express server (pool configuration, startup check,  *)
(* /api/health, /api/query, graceful shutdown) and the browser-side        *)
(* DatabaseAPI (retry with backoff, connection monitoring, listeners).     *)
(*                                                                         *)
(* Spec         the server process, from module load to process exit       *)
(* BootSpec     the start of the server process in every environment       *)
(* QuerySpec    the query calls of one DatabaseAPI instance                *)
(* MonitorSpec  the connection monitoring of one DatabaseAPI instance      *)
(* ClientSpec   one query call next to the connection monitoring           *)
(***************************************************************************)
EXTENDS Integers, Sequences, FiniteSets, TLC

(* ------------------------------ bounds --------------------------------- *)
\* requests the server receives, overlapping or one after the other
MaxReq == 2
\* termination signals delivered to one process
MaxSignals == 2

\* DatabaseAPI.query invocations, overlapping or one after the other
MaxCalls == 2
\* largest number of failures before success of one query operation
MaxFails == 3
\* attempts after which the model stops following one query invocation
MaxAttempts == 5
\* distinct listener callbacks
MaxListeners == 2
\* checkConnection invocations that can be in flight at the same time
MaxProbes == 2

(* ------------------------- program constants --------------------------- *)
\* poolConfig.max
max == 20
\* DatabaseAPI.maxRetries
maxRetries == 3
\* DatabaseAPI.retryDelay
retryDelay == 1000
\* the cap inside Math.min of retryOperation
delayCap == 10000

Undefined == "undefined"

(* ------------------------- environment --------------------------------- *)
\* the three password variables, and the values one of them can hold:
\* unset, the empty string, or a non-empty secret
PwVars == {"AZURE_POSTGRESQL_PASSWORD", "PGPASSWORD", "WEBSITE_DBPASSWORD"}
PwValues == {Undefined, "", "pwA", "pwB"}

\* AZURE_POSTGRESQL_CONNECTIONSTRING: unset, empty, the URL form, the bare
\* form (no scheme), or text that new URL() rejects.  Every parseable form
\* carries a password of its own in the user-info part.
ConnStrings ==
  { [form |-> "unset"], [form |-> "empty"],
    [form |-> "url"], [form |-> "bare"], [form |-> "bad"] }

\* JavaScript truthiness of a string-valued environment variable
Truthy(v) == v # Undefined /\ v # ""

\* a || b || c  on string-or-undefined operands
Or3(a, b, c) == IF Truthy(a) THEN a ELSE IF Truthy(b) THEN b ELSE c

\* new URL(text): the parsed parts, or a thrown TypeError
ParseURL(cs) ==
  IF cs.form \in {"url", "bare"}
    THEN [ok |-> TRUE, hostname |-> "cs-host", username |-> "cs-user",
          password |-> "cs-secret", pathname |-> "/cs-db", port |-> ""]
    ELSE [ok |-> FALSE]

\* getAzureDbConfig: the resolved configuration, or the process exit of the
\* catch branch
getAzureDbConfig(cs, pw) ==
  LET password == Or3(pw["WEBSITE_DBPASSWORD"], pw["PGPASSWORD"],
                      pw["AZURE_POSTGRESQL_PASSWORD"])
  IN IF cs.form \in {"unset", "empty"}
       THEN [exit |-> FALSE, host |-> "default-host", database |-> "default-db",
             user |-> "default-user", password |-> password]
       ELSE LET config == ParseURL(cs)
            IN IF config.ok
                 THEN [exit |-> FALSE, host |-> config.hostname,
                       database |-> "cs-db", user |-> config.username,
                       password |-> password]
                 ELSE [exit |-> TRUE]

\* parse(connectionString) of pg-connection-string: whether it returns
\* (TRUE) or throws (FALSE).  It returns for a postgres:// URL; for the other
\* texts the outcome depends on the installed version of the package.
ParseOutcomes(cs) == IF cs.form = "url" THEN {TRUE} ELSE BOOLEAN

\* getConnectionConfig of the database library: null when the connection
\* string is missing or parse throws, the resolved configuration otherwise
getConnectionConfig(cs, pw, parsed) ==
  IF ~(cs.form \in {"url", "bare", "bad"})
    THEN [null |-> TRUE]
    ELSE IF parsed
      THEN [null |-> FALSE, host |-> "cs-host", database |-> "cs-db",
            user |-> "cs-user",
            password |-> Or3(pw["AZURE_POSTGRESQL_PASSWORD"], pw["PGPASSWORD"],
                             pw["WEBSITE_DBPASSWORD"])]
      ELSE [null |-> TRUE]

(* ------------------------- server state -------------------------------- *)
VARIABLES
  env,          \* process.env: [cs: connection string, pw: password variables]
  proc,         \* "boot" (module not yet run), "running", "exited"
  exitCode,     \* argument of process.exit, -1 while the process lives
  poolConfig,   \* the object passed to new Pool, Undefined before that
  startupCheck, \* pool.connect(cb) of line 73: "none","pending","ok","failed"
  listening,    \* the HTTP server accepts connections
  leased,       \* connections currently checked out of the pool
  endCalls,     \* number of pool.end() calls made so far
  drain,        \* the first pool.end(): "none","inProgress","done","failed"
  sd,           \* invocations of shutdown, one per delivered signal
  req,          \* the handler invocations, one slot per request
  served        \* some handler has already sent a response

serverVars == <<env, proc, exitCode, poolConfig, startupCheck, listening,
                leased, endCalls, drain, sd, req, served>>

(* ------------------------- client state -------------------------------- *)
VARIABLES
  retryCount,            \* DatabaseAPI.retryCount
  call,                  \* invocations of DatabaseAPI.query
  connectionListeners,   \* the listener Set, in insertion order
  throwers,              \* the registered listeners whose callback throws
  connectionCheckTimer,  \* the interval handle, 0 for null
  timerActive,           \* the interval has not been cleared
  probes,                \* checkConnection invocations awaiting the fetch
  cycle                  \* what the last completed checkConnection did

clientVars == <<retryCount, call, connectionListeners, throwers,
                connectionCheckTimer, timerActive, probes, cycle>>

vars == <<serverVars, clientVars>>

Reqs == 1..MaxReq
Sigs == 1..MaxSignals

\* the body of a /api/health response that has not been written
NoBody == [status |-> "none", database |-> "none", error |-> "none"]

\* text: req.body.text; failure: what was thrown inside the try block;
\* responses: how often res.json was called; status: the HTTP status sent;
\* message: the message of the response; body: the health body sent
IdleReq == [kind |-> "none", pc |-> "idle", client |-> FALSE, acquired |-> 0,
            released |-> 0, status |-> 0, message |-> "none",
            text |-> Undefined, failure |-> "none", responses |-> 0,
            body |-> NoBody]

IdleSd == [pc |-> "idle", first |-> FALSE]

\* every environment the process can be started in
Envs == [cs : ConnStrings, pw : [PwVars -> PwValues]]

\* the environments followed through the whole life of the server: no
\* password at all, a password beside a URL connection string, a password
\* with no connection string, and a connection string that does not parse
ServerEnvs ==
  { [cs |-> [form |-> "unset"], pw |-> [v \in PwVars |-> Undefined]],
    [cs |-> [form |-> "url"],
     pw |-> [v \in PwVars |-> IF v = "PGPASSWORD" THEN "pwA" ELSE Undefined]],
    [cs |-> [form |-> "empty"],
     pw |-> [v \in PwVars |-> IF v = "WEBSITE_DBPASSWORD" THEN "pwB" ELSE ""]],
    [cs |-> [form |-> "bad"],
     pw |-> [v \in PwVars |-> IF v = "PGPASSWORD" THEN "pwA" ELSE Undefined]] }

ServerStart ==
  /\ proc = "boot"
  /\ exitCode = -1
  /\ poolConfig = Undefined
  /\ startupCheck = "none"
  /\ listening = FALSE
  /\ leased = 0
  /\ endCalls = 0
  /\ drain = "none"
  /\ sd = [i \in Sigs |-> IdleSd]
  /\ req = [r \in Reqs |-> IdleReq]
  /\ served = FALSE

ServerInit == env \in ServerEnvs /\ ServerStart

\* process.exit(code)
Exit(code) == proc' = "exited" /\ exitCode' = code

\* The synchronous module body: resolve the configuration, construct the
\* pool, issue the startup pool.connect, register the routes and the signal
\* handlers, call app.listen.
Startup ==
  /\ proc = "boot"
  /\ LET cfg == getAzureDbConfig(env.cs, env.pw)
     IN IF cfg.exit
          THEN /\ Exit(1)
               /\ UNCHANGED <<poolConfig, startupCheck>>
          ELSE /\ proc' = "running"
               /\ poolConfig' = [host |-> cfg.host, database |-> cfg.database,
                                 user |-> cfg.user, password |-> cfg.password,
                                 max |-> max]
               /\ startupCheck' = "pending"
               /\ UNCHANGED exitCode
  /\ UNCHANGED <<env, listening, leased, endCalls, drain, sd, req, served,
                 clientVars>>

\* the callback of app.listen: the server is bound and accepts requests
ListenReady ==
  /\ proc = "running"
  /\ ~listening
  /\ listening' = TRUE
  /\ UNCHANGED <<env, proc, exitCode, poolConfig, startupCheck, leased,
                 endCalls, drain, sd, req, served, clientVars>>

\* pool.connect() can hand out a connection
CanAcquire == leased < max /\ endCalls = 0

\* the callback of the startup pool.connect: on error exit(1), otherwise
\* release() the connection at once
StartupCheckDone(ok) ==
  /\ proc = "running"
  /\ startupCheck = "pending"
  /\ ok => CanAcquire
  /\ IF ok
       THEN startupCheck' = "ok" /\ UNCHANGED <<proc, exitCode>>
       ELSE startupCheck' = "failed" /\ Exit(1)
  /\ UNCHANGED <<env, poolConfig, listening, leased, endCalls, drain, sd,
                 req, served, clientVars>>

(* ------------------------- GET /api/health ----------------------------- *)
\* a request can be routed to a handler
Accepting == proc = "running" /\ listening

\* a slot that has not been given a request yet
Free(r) == req[r].pc = "idle"

\* the handler is entered and suspends at  await pool.connect()
HealthStart(r) ==
  /\ Accepting
  /\ Free(r)
  /\ req' = [req EXCEPT ![r] = [IdleReq EXCEPT !.kind = "health",
                                               !.pc = "h_connect"]]
  /\ UNCHANGED <<env, proc, exitCode, poolConfig, startupCheck, listening,
                 leased, endCalls, drain, sd, served, clientVars>>

\* a catch block that lets the failure go and sends nothing
HealthCatchSilent(q, error) == [q EXCEPT !.pc = "done"]

\* the catch block of the health handler: res.status(500).json with the
\* unhealthy body and error.message
HealthCatch(q, error) ==
  [q EXCEPT !.pc = "done", !.status = 500, !.message = error,
            !.responses = @ + 1,
            !.body = [status |-> "unhealthy", database |-> "disconnected",
                      error |-> error]]

\* pool.connect() settles: on success the handler suspends at
\* await client.query('SELECT 1'); on failure the catch block answers 500
HealthConnect(r, ok) ==
  /\ proc = "running"
  /\ req[r].pc = "h_connect"
  /\ ok => CanAcquire
  /\ IF ok
       THEN /\ leased' = leased + 1
            /\ req' = [req EXCEPT ![r].acquired = @ + 1, ![r].client = TRUE,
                                  ![r].pc = "h_query"]
            /\ UNCHANGED served
       ELSE /\ req' = [req EXCEPT ![r] =
                         HealthCatch([req[r] EXCEPT !.failure = "connect"],
                                     "connect")]
            /\ served' = TRUE
            /\ UNCHANGED leased
  /\ UNCHANGED <<env, proc, exitCode, poolConfig, startupCheck, listening,
                 endCalls, drain, sd, clientVars>>

\* client.query('SELECT 1') settles: on success client.release() and the
\* 200 body; on failure control jumps to the catch block, which answers 500
HealthProbe(r, ok) ==
  /\ proc = "running"
  /\ req[r].pc = "h_query"
  /\ IF ok
       THEN /\ leased' = leased - 1
            /\ req' = [req EXCEPT ![r].released = @ + 1, ![r].pc = "done",
                                  ![r].status = 200, ![r].message = "none",
                                  ![r].responses = @ + 1,
                                  ![r].body = [status |-> "healthy",
                                               database |-> "connected",
                                               error |-> "none"]]
       ELSE /\ req' = [req EXCEPT ![r] =
                         HealthCatch([req[r] EXCEPT !.failure = "probe"],
                                     "probe")]
            /\ UNCHANGED leased
  /\ served' = TRUE
  /\ UNCHANGED <<env, proc, exitCode, poolConfig, startupCheck, listening,
                 endCalls, drain, sd, clientVars>>

(* ------------------------- POST /api/query ----------------------------- *)
\* req.body.text: absent, the empty string, or some SQL
Texts == {Undefined, "", "sql"}

\* a finally block that marks the handler done and forgets the release
QueryFinallyNoRelease(q) == [q EXCEPT !.pc = "done"]

\* the finally block: release the client if one was assigned
QueryFinally(q) ==
  IF q.client THEN [q EXCEPT !.released = @ + 1, !.pc = "done"]
              ELSE [q EXCEPT !.pc = "done"]

\* a validation that only notices an absent text
TextAbsent(text) == text = Undefined

\* if (!text)
TextMissing(text) == ~Truthy(text)

\* the handler is entered: without text it answers 400 and returns through
\* the finally block; otherwise it suspends at  await pool.connect()
QueryStart(r, text) ==
  /\ Accepting
  /\ Free(r)
  /\ LET q == [IdleReq EXCEPT !.kind = "query", !.text = text]
     IN IF TextMissing(text)
          THEN /\ req' = [req EXCEPT ![r] =
                            QueryFinally([q EXCEPT !.status = 400,
                                                   !.message = "required",
                                                   !.responses = @ + 1])]
               /\ served' = TRUE
          ELSE /\ req' = [req EXCEPT ![r] = [q EXCEPT !.pc = "q_connect"]]
               /\ UNCHANGED served
  /\ UNCHANGED <<env, proc, exitCode, poolConfig, startupCheck, listening,
                 leased, endCalls, drain, sd, clientVars>>

\* pool.connect() settles: on success client is assigned and the handler
\* suspends at  await client.query(text, params); on failure catch, finally
QueryConnect(r, ok) ==
  /\ proc = "running"
  /\ req[r].pc = "q_connect"
  /\ ok => CanAcquire
  /\ IF ok
       THEN /\ leased' = leased + 1
            /\ req' = [req EXCEPT ![r].acquired = @ + 1, ![r].client = TRUE,
                                  ![r].pc = "q_query"]
            /\ UNCHANGED served
       ELSE /\ req' = [req EXCEPT ![r] =
                         QueryFinally([req[r] EXCEPT !.status = 500,
                                                     !.failure = "connect",
                                                     !.message = "connect",
                                                     !.responses = @ + 1])]
            /\ served' = TRUE
            /\ UNCHANGED leased
  /\ UNCHANGED <<env, proc, exitCode, poolConfig, startupCheck, listening,
                 endCalls, drain, sd, clientVars>>

\* client.query settles.  ok: the query succeeded; sendOk: res.json of the
\* result did not throw (otherwise the catch block answers 500).  The
\* finally block runs on each of the three paths.
QueryExec(r, ok, sendOk) ==
  /\ proc = "running"
  /\ req[r].pc = "q_query"
  /\ LET answered ==
           IF ok /\ sendOk
             THEN [req[r] EXCEPT !.status = 200, !.message = "none",
                                 !.responses = @ + 1]
             ELSE [req[r] EXCEPT !.status = 500, !.responses = @ + 1,
                     !.failure = IF ok THEN "send" ELSE "query",
                     !.message = IF ok THEN "send" ELSE "query"]
         after == QueryFinally(answered)
     IN /\ req' = [req EXCEPT ![r] = after]
        /\ leased' = leased - (after.released - req[r].released)
  /\ served' = TRUE
  /\ UNCHANGED <<env, proc, exitCode, poolConfig, startupCheck, listening,
                 endCalls, drain, sd, clientVars>>

(* ------------------------- graceful shutdown --------------------------- *)
Signals == {"SIGTERM", "SIGINT"}

\* a termination signal is delivered: shutdown() runs up to  await pool.end()
Signal(i, sig) ==
  /\ proc = "running"
  /\ sd[i].pc = "idle"
  /\ \A j \in Sigs : j < i => sd[j].pc # "idle"
  /\ sig \in Signals
  /\ sd' = [sd EXCEPT ![i] = [pc |-> "awaitEnd", first |-> endCalls = 0]]
  /\ endCalls' = endCalls + 1
  /\ drain' = IF endCalls = 0 THEN "inProgress" ELSE drain
  /\ UNCHANGED <<env, proc, exitCode, poolConfig, startupCheck, listening,
                 leased, req, served, clientVars>>

\* the pool.end() awaited by invocation i settles (the first call when the
\* drain completes or fails, a repeated call on its own), the outcome is
\* logged and process.exit(0) is called
shutdown(i, ok) ==
  /\ proc = "running"
  /\ sd[i].pc = "awaitEnd"
  /\ sd' = [sd EXCEPT ![i].pc = "exit"]
  /\ drain' = IF sd[i].first THEN (IF ok THEN "done" ELSE "failed") ELSE drain
  /\ Exit(0)
  /\ UNCHANGED <<env, poolConfig, startupCheck, listening, leased, endCalls,
                 req, served, clientVars>>

ServerNext ==
  \/ Startup
  \/ ListenReady
  \/ \E ok \in BOOLEAN : StartupCheckDone(ok)
  \/ \E r \in Reqs : HealthStart(r)
  \/ \E r \in Reqs, ok \in BOOLEAN : HealthConnect(r, ok)
  \/ \E r \in Reqs, ok \in BOOLEAN : HealthProbe(r, ok)
  \/ \E r \in Reqs, text \in Texts : QueryStart(r, text)
  \/ \E r \in Reqs, ok \in BOOLEAN : QueryConnect(r, ok)
  \/ \E r \in Reqs, ok, sendOk \in BOOLEAN : QueryExec(r, ok, sendOk)
  \/ \E i \in Sigs, sig \in Signals : Signal(i, sig)
  \/ \E i \in Sigs, ok \in BOOLEAN : shutdown(i, ok)

(* ------------------------- DatabaseAPI.query --------------------------- *)
Calls == 1..MaxCalls

\* what the operation passed to retryOperation does: it fails this many
\* times and then succeeds, or it fails every time
Always == [always |-> TRUE, fails |-> 0]
Plans == {[always |-> FALSE, fails |-> k] : k \in 0..MaxFails} \cup {Always}

Min(a, b) == IF a < b THEN a ELSE b

RECURSIVE Pow2(_)
Pow2(n) == IF n <= 0 THEN 1 ELSE 2 * Pow2(n - 1)

IdleCall == [pc |-> "idle", plan |-> Always, attempts |-> 0, delays |-> <<>>,
             error |-> 0, alone |-> TRUE, fresh |-> TRUE]

InFlight(c) == call[c].pc \in {"fetching", "waiting"}

\* the attempt that is about to settle succeeds
OpSucceeds(q) == ~q.plan.always /\ q.attempts - 1 >= q.plan.fails

\* a catch block that retries while retryCount <= maxRetries
retryOperationOneMore(rc) ==
  IF rc <= maxRetries
    THEN [retry |-> TRUE, retryCount |-> rc + 1,
          delay |-> Min(retryDelay * Pow2((rc + 1) - 1), delayCap)]
    ELSE [retry |-> FALSE, retryCount |-> rc, delay |-> 0]

\* the catch block of retryOperation, given this.retryCount: either the
\* counter is incremented and the delay computed from it, or the error is
\* rethrown
retryOperation(rc) ==
  IF rc < maxRetries
    THEN [retry |-> TRUE, retryCount |-> rc + 1,
          delay |-> Min(retryDelay * Pow2((rc + 1) - 1), delayCap)]
    ELSE [retry |-> FALSE, retryCount |-> rc, delay |-> 0]

\* query(text, params): retryOperation starts the first attempt
query(c, plan) ==
  /\ call[c].pc = "idle"
  /\ LET others == \E d \in Calls \ {c} : InFlight(d)
     IN call' = [d \in Calls |->
                   IF d = c
                     THEN [IdleCall EXCEPT !.pc = "fetching", !.plan = plan,
                                           !.attempts = 1, !.alone = ~others,
                                           !.fresh = (retryCount = 0)]
                     ELSE IF InFlight(d) THEN [call[d] EXCEPT !.alone = FALSE]
                                         ELSE call[d]]
  /\ UNCHANGED <<retryCount, connectionListeners, throwers,
                 connectionCheckTimer, timerActive, probes, cycle, serverVars>>

\* await operation() settles: on success the counter is reset and the call
\* resolves; on failure the catch block either schedules a retry or rethrows
AttemptSettles(c) ==
  /\ call[c].pc = "fetching"
  /\ IF OpSucceeds(call[c])
       THEN /\ retryCount' = 0
            /\ call' = [call EXCEPT ![c].pc = "resolved"]
       ELSE LET d == retryOperation(retryCount)
            IN /\ retryCount' = d.retryCount
               /\ call' = IF d.retry
                    THEN [call EXCEPT ![c].pc = "waiting",
                                      ![c].delays = Append(@, d.delay)]
                    ELSE [call EXCEPT ![c].pc = "rejected",
                                      ![c].error = call[c].attempts]
  /\ UNCHANGED <<connectionListeners, throwers, connectionCheckTimer,
                 timerActive, probes, cycle, serverVars>>

\* the setTimeout of the backoff fires: retryOperation(operation) starts the
\* next attempt
BackoffElapsed(c) ==
  /\ call[c].pc = "waiting"
  /\ call[c].attempts < MaxAttempts
  /\ call' = [call EXCEPT ![c].pc = "fetching", ![c].attempts = @ + 1]
  /\ UNCHANGED <<retryCount, connectionListeners, throwers,
                 connectionCheckTimer, timerActive, probes, cycle, serverVars>>

(* ------------------------- connection monitoring ----------------------- *)
Listeners == 1..MaxListeners

\* what fetch('/api/health') and response.json() give a probe: a body with
\* database = 'connected', another body, or a rejection
Outcomes == {"connected", "disconnected", "rejected"}

RECURSIVE notifyListeners(_, _, _)
\* connectionListeners.forEach(listener => listener(isConnected)): the
\* invocations made, in order, and whether one of them threw (forEach stops
\* at the first callback that throws)
notifyListeners(ls, th, isConnected) ==
  IF ls = <<>>
    THEN [log |-> <<>>, threw |-> FALSE]
    ELSE LET inv == [listener |-> Head(ls), value |-> isConnected]
         IN IF Head(ls) \in th
              THEN [log |-> <<inv>>, threw |-> TRUE]
              ELSE LET rest == notifyListeners(Tail(ls), th, isConnected)
                   IN [log |-> <<inv>> \o rest.log, threw |-> rest.threw]

\* the body of checkConnection once the fetch has settled: the try block
\* notifies with the probe's value; anything thrown inside it, by the fetch
\* or by a listener, lands in the catch block, which notifies with false
checkConnection(ls, th, outcome) ==
  IF outcome = "rejected"
    THEN LET r == notifyListeners(ls, th, FALSE)
         IN [value |-> FALSE, log |-> r.log, uncaught |-> r.threw]
    ELSE LET isConnected == (outcome = "connected")
             r1 == notifyListeners(ls, th, isConnected)
         IN IF r1.threw
              THEN LET r2 == notifyListeners(ls, th, FALSE)
                   IN [value |-> isConnected, log |-> r1.log \o r2.log,
                       uncaught |-> r2.threw]
              ELSE [value |-> isConnected, log |-> r1.log, uncaught |-> FALSE]

NoCycle == [done |-> FALSE, value |-> FALSE, log |-> <<>>,
            listeners |-> <<>>, uncaught |-> FALSE, timerCleared |-> FALSE]

InSeq(l, ls) == \E k \in 1..Len(ls) : ls[k] = l

\* onConnectionChange(listener): Set.add
onConnectionChange(l) ==
  /\ ~InSeq(l, connectionListeners)
  /\ connectionListeners' = Append(connectionListeners, l)
  /\ UNCHANGED <<retryCount, call, throwers, connectionCheckTimer,
                 timerActive, probes, cycle, serverVars>>

\* the closure returned by onConnectionChange: Set.delete
Unsubscribe(l) ==
  /\ InSeq(l, connectionListeners)
  /\ connectionListeners' = SelectSeq(connectionListeners, LAMBDA x : x # l)
  /\ UNCHANGED <<retryCount, call, throwers, connectionCheckTimer,
                 timerActive, probes, cycle, serverVars>>

\* the setInterval callback: one more checkConnection starts its fetch
IntervalTick ==
  /\ timerActive
  /\ probes < MaxProbes
  /\ probes' = probes + 1
  /\ UNCHANGED <<retryCount, call, connectionListeners, throwers,
                 connectionCheckTimer, timerActive, cycle, serverVars>>

\* a probe that also resets the retry counter
ProbeSettlesResetsRetry(outcome) ==
  /\ probes > 0
  /\ probes' = probes - 1
  /\ retryCount' = 0
  /\ LET r == checkConnection(connectionListeners, throwers, outcome)
     IN cycle' = [done |-> TRUE, value |-> r.value, log |-> r.log,
                  listeners |-> connectionListeners, uncaught |-> r.uncaught,
                  timerCleared |-> ~timerActive]
  /\ UNCHANGED <<call, connectionListeners, throwers,
                 connectionCheckTimer, timerActive, serverVars>>

\* the fetch of one checkConnection settles and the listeners are notified
ProbeSettles(outcome) ==
  /\ probes > 0
  /\ probes' = probes - 1
  /\ LET r == checkConnection(connectionListeners, throwers, outcome)
     IN cycle' = [done |-> TRUE, value |-> r.value, log |-> r.log,
                  listeners |-> connectionListeners, uncaught |-> r.uncaught,
                  timerCleared |-> ~timerActive]
  /\ UNCHANGED <<retryCount, call, connectionListeners, throwers,
                 connectionCheckTimer, timerActive, serverVars>>

\* a cleanup that forgets clearInterval
cleanupKeepsTimer ==
  /\ connectionListeners' = <<>>
  /\ UNCHANGED <<retryCount, call, throwers, connectionCheckTimer,
                 timerActive, probes, cycle, serverVars>>

\* cleanup(): clearInterval when a handle is stored, then Set.clear
cleanup ==
  /\ timerActive' = IF connectionCheckTimer # 0 THEN FALSE ELSE timerActive
  /\ connectionListeners' = <<>>
  /\ UNCHANGED <<retryCount, call, throwers, connectionCheckTimer, probes,
                 cycle, serverVars>>

(* ------------------------- specifications ------------------------------ *)
\* the state right after  new DatabaseAPI():  the constructor has called
\* startConnectionMonitoring, so one probe is in flight and the interval runs
ClientInit ==
  /\ retryCount = 0
  /\ call = [c \in Calls |-> IdleCall]
  /\ connectionListeners = <<>>
  /\ throwers \in SUBSET Listeners
  /\ connectionCheckTimer = 1
  /\ timerActive = TRUE
  /\ probes = 1
  /\ cycle = NoCycle

\* no client is attached to the server model
NoClient ==
  /\ retryCount = 0
  /\ call = [c \in Calls |-> IdleCall]
  /\ connectionListeners = <<>>
  /\ throwers = {}
  /\ connectionCheckTimer = 0
  /\ timerActive = FALSE
  /\ probes = 0
  /\ cycle = NoCycle

\* the client model abstracts the server into the outcomes of its fetches
NoServer ==
  /\ env = [cs |-> [form |-> "unset"], pw |-> [v \in PwVars |-> Undefined]]
  /\ ServerStart

QueryNext ==
  \/ \E c \in Calls, plan \in Plans : query(c, plan)
  \/ \E c \in Calls : AttemptSettles(c)
  \/ \E c \in Calls : BackoffElapsed(c)

MonitorNext ==
  \/ \E l \in Listeners : onConnectionChange(l)
  \/ \E l \in Listeners : Unsubscribe(l)
  \/ IntervalTick
  \/ \E outcome \in Outcomes : ProbeSettles(outcome)
  \/ cleanup

BootNext ==
  \/ Startup
  \/ ListenReady
  \/ \E ok \in BOOLEAN : StartupCheckDone(ok)

\* the server process
Init == ServerInit /\ NoClient
Next == ServerNext
Spec == Init /\ [][Next]_vars

\* the start of the server process, in every environment
BootInit == env \in Envs /\ ServerStart /\ NoClient
BootSpec == BootInit /\ [][BootNext]_vars

\* the query calls of one DatabaseAPI whose listeners never throw
QueryInit == ClientInit /\ throwers = {} /\ NoServer
QuerySpec == QueryInit /\ [][QueryNext]_vars

\* the connection monitoring of one DatabaseAPI
MonitorInit == ClientInit /\ NoServer
MonitorSpec == MonitorInit /\ [][MonitorNext]_vars

\* one query call of a DatabaseAPI, running next to its connection monitoring
FirstCall == {c \in Calls : \A d \in Calls : c <= d}

ClientNext ==
  \/ \E c \in FirstCall, plan \in Plans : query(c, plan)
  \/ \E c \in FirstCall : AttemptSettles(c)
  \/ \E c \in FirstCall : BackoffElapsed(c)
  \/ \E l \in Listeners : onConnectionChange(l)
  \/ \E l \in Listeners : Unsubscribe(l)
  \/ IntervalTick
  \/ \E outcome \in Outcomes : ProbeSettles(outcome)
  \/ cleanup

ClientSpec == QueryInit /\ [][ClientNext]_vars

(* ------------------------- properties ---------------------------------- *)
Finished(c) == call[c].pc \in {"resolved", "rejected"}

NoPassword(e) == \A v \in PwVars : ~Truthy(e.pw[v])

\* how often listener l was invoked during the last probe cycle
Invocations(l) ==
  Cardinality({k \in 1..Len(cycle.log) : cycle.log[k].listener = l})

\* C1: a /api/health handler that has responded has released every
\* connection it acquired exactly once, whether the probe succeeded or
\* failed, so that it leaves the number of leased connections as it found it.
C1_HealthReleasesOnEveryOutcome ==
  \A r \in Reqs :
    (req[r].kind = "health" /\ req[r].pc = "done")
      => req[r].released = req[r].acquired

\* C2: a /api/query handler releases the connection it acquired exactly once
\* on every exit path (success, query error, error while sending the
\* response) and releases nothing when it acquired nothing (validation
\* failure, acquire failure): never leaked, never released twice.
C2_QueryReleasesExactlyOnce ==
  \A r \in Reqs :
    req[r].kind = "query" =>
      /\ req[r].acquired \in {0, 1}
      /\ req[r].released <= req[r].acquired
      /\ req[r].pc = "q_query" => (req[r].acquired = 1 /\ req[r].released = 0)
      /\ req[r].pc = "done" => req[r].released = req[r].acquired
      /\ req[r].status = 400 => req[r].acquired = 0
      /\ req[r].message = "connect" => req[r].acquired = 0

\* a query handler that acquired a connection, failed while sending the
\* result, answered 500 and released the connection
C2_Witness ==
  \E r \in Reqs :
    /\ req[r].kind = "query" /\ req[r].pc = "done"
    /\ req[r].status = 500 /\ req[r].message = "send"
    /\ req[r].acquired = 1 /\ req[r].released = 1

RECURSIVE RunAlone(_, _, _, _)
\* retryOperation run with a counter of its own: attempt number `attempts`
\* of an operation with the given plan settles
RunAlone(plan, rc, attempts, delays) ==
  IF ~plan.always /\ attempts - 1 >= plan.fails
    THEN [pc |-> "resolved", attempts |-> attempts, delays |-> delays]
    ELSE LET d == retryOperation(rc)
         IN IF d.retry
              THEN RunAlone(plan, d.retryCount, attempts + 1,
                            Append(delays, d.delay))
              ELSE [pc |-> "rejected", attempts |-> attempts,
                    delays |-> delays]

\* C3: a query call that started with the counter at zero makes the same
\* number of attempts and waits the same delays as if it ran alone, whatever
\* another call in flight on the same client does.
C3_IndependentRetryState ==
  \A c \in Calls :
    (Finished(c) /\ call[c].fresh) =>
      LET solo == RunAlone(call[c].plan, 0, 1, <<>>)
      IN /\ call[c].pc = solo.pc
         /\ call[c].attempts = solo.attempts
         /\ call[c].delays = solo.delays

\* C4: a query call whose operation always fails, started in any state that
\* earlier calls left behind, rejects after exactly maxRetries + 1 attempts
\* with the error of its last attempt.
C4_RetryExhaustion ==
  \A c \in Calls :
    (Finished(c) /\ call[c].alone /\ call[c].plan.always) =>
      /\ call[c].pc = "rejected"
      /\ call[c].attempts = maxRetries + 1
      /\ call[c].error = call[c].attempts

\* C5: a query call whose operation fails exactly k times (0 <= k <= 3) and
\* then succeeds resolves after exactly k + 1 attempts, and the wait before
\* its i-th retry is min(1000 * 2^(i-1), 10000) ms.
C5_RetryThenSuccess ==
  \A c \in Calls :
    (/\ Finished(c) /\ call[c].alone
     /\ ~call[c].plan.always /\ call[c].plan.fails \in 0..3) =>
      /\ call[c].pc = "resolved"
      /\ call[c].attempts = call[c].plan.fails + 1
      /\ call[c].delays =
           [i \in 1..call[c].plan.fails |-> Min(1000 * Pow2(i - 1), 10000)]

\* C6: the shutdown path is entered at most once per process, so that
\* pool.end() is called at most once, however many signals arrive.
C6_ShutdownEnteredOnce ==
  /\ endCalls <= 1
  /\ Cardinality({i \in Sigs : sd[i].pc # "idle"}) <= 1

\* C7: process.exit(0) of the shutdown path is reached only after the
\* pool.end() that was started first has completed or failed.
C7_ExitOnlyAfterDrain ==
  (proc = "exited" /\ exitCode = 0) => drain \in {"done", "failed"}

\* C8: no request is handled before the startup liveness check has
\* succeeded; when the check fails the process has handled no request.
C8_FailFastStartup ==
  (served \/ \E r \in Reqs : req[r].pc # "idle") => startupCheck = "ok"

\* C9: in an environment where no password variable holds a non-empty
\* string, the server's start fails: the process exits before the pool is
\* constructed, before any connection attempt and without listening.
C9_MissingPasswordIsFatal ==
  (NoPassword(env) /\ proc # "boot") =>
    /\ proc = "exited"
    /\ poolConfig = Undefined
    /\ startupCheck = "none"
    /\ ~listening

\* C10: in a probe cycle where a registered listener throws, every other
\* registered listener is still invoked exactly once, with the value of that
\* probe.
C10_ListenerFailureIsolation ==
  cycle.done =>
    \A k \in 1..Len(cycle.listeners) :
      LET l == cycle.listeners[k]
      IN l \notin throwers =>
           /\ Invocations(l) = 1
           /\ \A j \in 1..Len(cycle.log) :
                cycle.log[j].listener = l => cycle.log[j].value = cycle.value

\* C11: one probe cycle invokes each listener registered at that time
\* exactly once, all with the same boolean, and invokes no listener that is
\* not registered any more (one whose unsubscribe closure has been called).
C11_ListenerFanOut ==
  cycle.done =>
    /\ \A k \in 1..Len(cycle.listeners) :
         Invocations(cycle.listeners[k]) = 1
    /\ \A j \in 1..Len(cycle.log) :
         /\ InSeq(cycle.log[j].listener, cycle.listeners)
         /\ cycle.log[j].value = cycle.value

\* C12: a /api/health handler sends nothing before it is done and exactly
\* one response when it is: 200 with {healthy, connected} when acquire and
\* probe both succeeded, otherwise 500 with {unhealthy, disconnected} and
\* the message of the failure; no other status is sent.
C12_HealthAlwaysAnswers ==
  \A r \in Reqs :
    req[r].kind = "health" =>
      /\ req[r].pc # "done" => (req[r].responses = 0 /\ req[r].status = 0)
      /\ req[r].pc = "done" =>
           /\ req[r].responses = 1
           /\ req[r].status \in {200, 500}
           /\ req[r].status = 200 <=> req[r].failure = "none"
           /\ req[r].status = 200 =>
                req[r].body = [status |-> "healthy", database |-> "connected",
                               error |-> "none"]
           /\ req[r].status = 500 =>
                /\ req[r].failure \in {"connect", "probe"}
                /\ req[r].body = [status |-> "unhealthy",
                                  database |-> "disconnected",
                                  error |-> req[r].failure]

\* a health handler whose probe failed after a successful acquire and that
\* answered 500 with the unhealthy body
C12_Witness ==
  \E r \in Reqs :
    /\ req[r].kind = "health" /\ req[r].pc = "done"
    /\ req[r].acquired = 1 /\ req[r].failure = "probe"
    /\ req[r].status = 500 /\ req[r].body.status = "unhealthy"

\* C13: a /api/query request whose text is absent or empty is answered with
\* 400 at once and never reaches the pool: no acquire, no query execution,
\* no release.
C13_MissingTextIsBadRequest ==
  \A r \in Reqs :
    (req[r].kind = "query" /\ req[r].text \in {Undefined, ""}) =>
      /\ req[r].pc = "done"
      /\ req[r].status = 400
      /\ req[r].responses = 1
      /\ req[r].acquired = 0 /\ req[r].released = 0 /\ ~req[r].client

\* a query request with an empty text that has been answered 400 while the
\* pool holds no connection for it
C13_Witness ==
  \E r \in Reqs :
    /\ req[r].kind = "query" /\ req[r].text = ""
    /\ req[r].status = 400 /\ req[r].acquired = 0

\* C14: cleanup() always completes and leaves the interval cleared and the
\* listener set empty; once the interval is cleared it stays cleared and
\* starts no further probe; a probe cycle invokes only listeners registered
\* when it runs, so a listener registered before the cleanup is not invoked
\* again unless it is registered again; and a cleanup() called in the state a
\* cleanup() left changes nothing.
C14_CleanupIsFinal ==
  /\ [][cleanup => (~timerActive' /\ connectionListeners' = <<>>)]_vars
  /\ [][~timerActive => (~timerActive' /\ probes' <= probes)]_vars
  /\ [][cycle' # cycle =>
          \A k \in 1..Len(cycle'.log) :
            InSeq(cycle'.log[k].listener, connectionListeners)]_vars
  /\ [][(cleanup /\ ~timerActive /\ connectionListeners = <<>>)
          => UNCHANGED vars]_vars

\* a probe that was in flight at the cleanup has settled after it, with no
\* listener to invoke, and no probe is left
C14_Witness ==
  /\ ~timerActive
  /\ connectionListeners = <<>>
  /\ probes = 0
  /\ cycle.done /\ cycle.timerCleared
  /\ cycle.log = <<>>

\* C15: the probe started by the constructor is in flight or has completed,
\* and a completed probe has invoked every listener registered when it
\* completed, each invocation carrying the probe's value: true iff the health
\* body has database = 'connected', false for any other body and for a
\* network or parse failure.
C15_ConnectivityPolling ==
  /\ probes > 0 \/ cycle.done
  /\ cycle.done =>
       /\ \A l \in Listeners :
            InSeq(l, cycle.listeners) => Invocations(l) >= 1
       /\ \A k \in 1..Len(cycle.log) : cycle.log[k].value = cycle.value

\* C16: a step in which a health probe starts or completes leaves the retry
\* counter and every query call as they were, and a step of a query call (an
\* attempt, a retry, the exhaustion) leaves the interval timer, the listener
\* set, the probes in flight and the record of listener notifications as
\* they were.
C16_ProbesAndRetriesIndependent ==
  /\ [][(probes' # probes \/ cycle' # cycle)
          => UNCHANGED <<retryCount, call>>]_vars
  /\ [][(call' # call \/ retryCount' # retryCount)
          => UNCHANGED <<connectionCheckTimer, timerActive,
                         connectionListeners, probes, cycle>>]_vars

\* a probe has failed and told a registered listener so, and a query call
\* has used up its retries, the counter standing at maxRetries
C16_Witness ==
  /\ cycle.done /\ ~cycle.value /\ cycle.log # <<>>
  /\ connectionListeners # <<>>
  /\ retryCount = maxRetries
  /\ \E c \in Calls : call[c].pc = "rejected"

\* C17: no call of query makes more than maxRetries + 1 attempts of its
\* operation, whatever the other calls on the same client do meanwhile.
C17_BoundedAttempts ==
  \A c \in Calls : call[c].attempts <= maxRetries + 1

\* C18: in every reachable state of the client 0 <= retryCount <= maxRetries,
\* and every backoff wait of every call is one of 1000, 2000 and 4000 ms, so
\* that the 10000 ms cap is never the delay used.
C18_RetryCounterRange ==
  /\ retryCount \in 0..maxRetries
  /\ \A c \in Calls : \A k \in 1..Len(call[c].delays) :
       /\ call[c].delays[k] \in {retryDelay, 2 * retryDelay, 4 * retryDelay}
       /\ call[c].delays[k] < delayCap

\* the counter stands at maxRetries and a call has waited the longest
\* backoff, 4000 ms
C18_Witness ==
  /\ retryCount = maxRetries
  /\ \E c \in Calls : \E k \in 1..Len(call[c].delays) :
       call[c].delays[k] = 4 * retryDelay

\* C19: in every environment in which getAzureDbConfig and
\* getConnectionConfig both return a configuration, the two hold the same
\* password, and that password is the value of one of the three password
\* variables, never the password written in the connection string.
C19_ResolversAgreeOnPassword ==
  \A parsed \in ParseOutcomes(env.cs) :
    LET server == getAzureDbConfig(env.cs, env.pw)
        library == getConnectionConfig(env.cs, env.pw, parsed)
    IN (~server.exit /\ ~library.null) =>
         /\ server.password = library.password
         /\ server.password \in {env.pw[v] : v \in PwVars}
         /\ library.password \in {env.pw[v] : v \in PwVars}

====
